---- MODULE Spec2Model ----
(***************************************************************************)
(* Session/query lifecycle of the Telegram bot: the ClaudeSession object   *)
(* (src/src/session.ts), the message handlers that drive it               *)
(* (src/unnamed/part_000, src/src/handlers/document.ts) and the persisted  *)
(* session index.  JavaScript runs one callback at a time: every action    *)
(* below is one run of code from one await point to the next.              *)
(***************************************************************************)
EXTENDS Integers, Sequences, FiniteSets, TLC

(* ------------------------------------------------------------------ *)
(* Bounds of the model                                                 *)
(* ------------------------------------------------------------------ *)

\* messages that arrive in one behaviour
MaxMessages == 2
\* events one stream delivers
MaxEvents == 4
\* session ids the index sees, and saves into it, in SpecIndex
MaxIds == 6
MaxSaves == 7
\* session ids and saves in SpecStore
MaxStoreIds == 3
MaxStoreSaves == 4
\* words of a message in SpecThinking
MaxWords == 3

\* the concurrently running handler invocations
Handlers == {"h1", "h2"}

(* ------------------------------------------------------------------ *)
(* Values                                                              *)
(* ------------------------------------------------------------------ *)

\* JavaScript null / undefined
Null == "<null>"
\* a Date object
Date == "<date>"

\* session.ts:77
MAX_SESSIONS == 5
\* config: the working directory of this process, and another one
WORKING_DIR == "/work"
OTHER_DIR == "/other"

\* session ids the backend hands out
SessionIdSeq == <<"s1", "s2", "s3", "s4", "s5", "s6", "s7", "s8">>
SessionIds == { SessionIdSeq[i] : i \in 1..Len(SessionIdSeq) }

\* session.ts:608
DefaultTitle == "Sessione senza titolo"

\* session.ts:567-568
TimeoutNotice == "(timer) Response timed out (a tool call may have stalled). Try rephrasing or asking me to skip web lookups."
\* session.ts:579
NoResponse == "No response from Claude."
\* session.ts:556
WaitingForUser == "[Waiting for user selection]"
\* session.ts:253
CancelledError == "Error: Query cancelled"

(* ------------------------------------------------------------------ *)
(* Strings                                                             *)
(* ------------------------------------------------------------------ *)

\* String.prototype.includes
Includes(s, sub) ==
    \E i \in 1..(Len(s) - Len(sub) + 1) : SubSeq(s, i, i + Len(sub) - 1) = sub

\* String.prototype.startsWith
StartsWith(s, pre) == Len(s) >= Len(pre) /\ SubSeq(s, 1, Len(pre)) = pre

\* String.prototype.slice(0, n)
Slice0(s, n) == IF Len(s) <= n THEN s ELSE SubSeq(s, 1, n)

Upper == "ABCDEFGHIJKLMNOPQRSTUVWXYZ"
Lower == "abcdefghijklmnopqrstuvwxyz"

LowerChar(c) ==
    IF \E i \in 1..26 : SubSeq(Upper, i, i) = c
    THEN LET i == CHOOSE j \in 1..26 : SubSeq(Upper, j, j) = c
         IN  SubSeq(Lower, i, i)
    ELSE c

RECURSIVE ToLowerCase(_)
\* String.prototype.toLowerCase
ToLowerCase(s) ==
    IF Len(s) = 0 THEN ""
    ELSE IF Len(s) = 1 THEN LowerChar(s)
    ELSE LET m == Len(s) \div 2
         IN  ToLowerCase(SubSeq(s, 1, m)) \o ToLowerCase(SubSeq(s, m + 1, Len(s)))

(* ------------------------------------------------------------------ *)
(* Stream events (the SDKMessage values the query iterator yields)     *)
(* ------------------------------------------------------------------ *)

Text(t) == [type |-> "text", text |-> t, name |-> "", input |-> "", id |-> ""]
Thinking(t) == [type |-> "thinking", text |-> t, name |-> "", input |-> "", id |-> ""]
ToolUse(n, in, i) == [type |-> "tool_use", text |-> "", name |-> n, input |-> in, id |-> i]
ToolResult(i, out) == [type |-> "tool_result", text |-> out, name |-> "", input |-> "", id |-> i]

ShortText == "Hi."
\* longer than the 20 characters of session.ts:449
LongText == "Here are the results."
AskUserTool == "mcp__ask-user"

\* An event: its type, its content blocks, and whether it carries the
\* session_id of its stream.
Event(type, hasId, content) == [type |-> type, hasId |-> hasId, content |-> content]
SystemInit == Event("system", TRUE, <<>>)
Assistant(content) == Event("assistant", TRUE, content)
User(content) == Event("user", TRUE, content)
Result == Event("result", TRUE, <<>>)

\* The streams of the model: a query's stream delivers the events of one of
\* these, in order, and may end or raise after any of them.
Scripts ==
    << \* text, a tool call and its result, more text
       << SystemInit,
          Assistant(<<Text(LongText), ToolUse("Bash", "ls", "t1")>>),
          User(<<ToolResult("t1", "ok"), ToolResult("t1", "ok")>>),
          Assistant(<<Text(ShortText)>>),
          Result >>,
       \* an unsafe command
       << SystemInit,
          Assistant(<<Text(ShortText), ToolUse("Bash", "rm -rf /", "t2")>>) >>,
       \* a read outside the allowed paths
       << SystemInit,
          Assistant(<<ToolUse("Read", "/etc/abort.conf", "t3")>>) >>,
       \* an ask_user call between two texts
       << SystemInit,
          Assistant(<<Text(ShortText), ToolUse(AskUserTool, "pick one", "t4"), Text(LongText)>>),
          User(<<ToolResult("t4", "picked"), ToolResult("t1", "late")>>),
          Result >>,
       \* a first event without session id; thinking and empty text
       << Event("assistant", FALSE, <<Thinking("hmm"), Text("")>>),
          Result >>,
       \* text in several events
       << SystemInit,
          Assistant(<<Text(ShortText)>>),
          Assistant(<<Text(LongText)>>),
          Assistant(<<Text(LongText)>>),
          Result >>,
       \* an ask_user call and a blocked read in one event
       << SystemInit,
          Assistant(<<ToolUse(AskUserTool, "pick one", "t4"),
                      ToolUse("Read", "/etc/abort.conf", "t3")>>) >> >>

\* errors the query iterator may raise (String(error))
AbortErrorStr == "AbortError: The operation was aborted"
FaultErrorStr == "Error: Claude Code process exited with code 1: the backend closed the connection before the response was complete (transport fault)"
StreamErrors == {AbortErrorStr, FaultErrorStr}

(* ------------------------------------------------------------------ *)
(* Safety checks and tool display                                      *)
(* ------------------------------------------------------------------ *)

UnsafeCommands == {"rm -rf /"}
TEMP_PATHS == {"/tmp/"}

\* security.ts checkCommandSafety: [isSafe, reason]
CheckCommandSafety(command) ==
    IF command \in UnsafeCommands
    THEN <<FALSE, "dangerous command">>
    ELSE <<TRUE, "">>

\* security.ts isPathAllowed
IsPathAllowed(filePath) == StartsWith(filePath, WORKING_DIR \o "/")

\* session.ts:344-373: Null when the tool passes, else the status text and the
\* error the code raises
SafetyVerdict(block) ==
    IF block.name = "Bash" /\ ~CheckCommandSafety(block.input)[1]
    THEN [status |-> "BLOCKED: " \o CheckCommandSafety(block.input)[2],
          error  |-> "Error: Unsafe command blocked: " \o CheckCommandSafety(block.input)[2]]
    ELSE IF /\ block.name \in {"Read", "Write", "Edit"}
            /\ block.input # ""
            /\ ~( /\ block.name = "Read"
                  /\ \/ \E p \in TEMP_PATHS : StartsWith(block.input, p)
                     \/ Includes(block.input, "/.claude/") )
            /\ ~IsPathAllowed(block.input)
    THEN [status |-> "Access denied: " \o block.input,
          error  |-> "Error: File access blocked: " \o block.input]
    ELSE [status |-> Null, error |-> Null]

\* formatting.ts escapeHtml, on one character
EscapeChar(c) ==
    CASE c = "&" -> "&amp;"
      [] c = "<" -> "&lt;"
      [] c = ">" -> "&gt;"
      [] c = "\"" -> "&quot;"
      [] OTHER   -> c

RECURSIVE EscapeHtml(_)
EscapeHtml(s) ==
    IF Len(s) = 0 THEN ""
    ELSE IF Len(s) = 1 THEN EscapeChar(s)
    ELSE LET m == Len(s) \div 2
         IN  EscapeHtml(SubSeq(s, 1, m)) \o EscapeHtml(SubSeq(s, m + 1, Len(s)))

\* formatting.ts truncate (inputs of the model hold no newline or outer blank)
Truncate(t, maxLen) == IF Len(t) <= maxLen THEN t ELSE SubSeq(t, 1, maxLen) \o "..."

\* position of the last "/" of a string before position n, 0 when none
LastSlash(s, n) ==
    IF \E i \in 1..n : SubSeq(s, i, i) = "/"
    THEN CHOOSE i \in 1..n : SubSeq(s, i, i) = "/" /\ \A j \in (i+1)..n : SubSeq(s, j, j) # "/"
    ELSE 0

\* formatting.ts shortenPath: the last two components
ShortenPath(path) ==
    IF path = "" THEN "file"
    ELSE LET last == LastSlash(path, Len(path))
         IN  IF last = 0 THEN path
             ELSE LET prev == LastSlash(path, last - 1)
                  IN  SubSeq(path, prev + 1, Len(path))

\* formatting.ts formatToolStatus, for the tools of the model; an emoji is
\* written as its name in parentheses
FormatToolStatus(toolName, input) ==
    CASE toolName = "Read"  -> "(book) Reading <code>" \o EscapeHtml(ShortenPath(input)) \o "</code>"
      [] toolName = "Write" -> "(memo) Writing <code>" \o EscapeHtml(ShortenPath(input)) \o "</code>"
      [] toolName = "Edit"  -> "(pencil) Editing <code>" \o EscapeHtml(ShortenPath(input)) \o "</code>"
      [] toolName = "Bash"  -> "(play) <code>" \o EscapeHtml(Truncate(input, 50)) \o "</code>"
      [] OTHER              -> "(wrench) " \o EscapeHtml(toolName)

\* formatting.ts formatToolDoneStatus, for the displays FormatToolStatus makes
FormatToolDoneStatus(toolStatus) ==
    CASE StartsWith(toolStatus, "(book) Reading ") -> "(check) Read " \o SubSeq(toolStatus, Len("(book) Reading ") + 1, Len(toolStatus))
      [] StartsWith(toolStatus, "(memo) Writing ") -> "(check) Wrote " \o SubSeq(toolStatus, Len("(memo) Writing ") + 1, Len(toolStatus))
      [] StartsWith(toolStatus, "(pencil) Editing ") -> "(check) Edited " \o SubSeq(toolStatus, Len("(pencil) Editing ") + 1, Len(toolStatus))
      [] StartsWith(toolStatus, "(play) ") -> "(check) Ran " \o SubSeq(toolStatus, Len("(play) ") + 1, Len(toolStatus))
      [] StartsWith(toolStatus, "(wrench) ") -> "(check) " \o SubSeq(toolStatus, Len("(wrench) ") + 1, Len(toolStatus))
      [] OTHER -> "(check) " \o toolStatus

\* session.ts:522-524
IsCleanupErrorString(errorString) ==
    LET errorStr == ToLowerCase(errorString)
    IN  Includes(errorStr, "cancel") \/ Includes(errorStr, "abort")

\* the errors of the model that session.ts:522-524 takes for cleanup errors
\* (computed once)
KnownErrors ==
    StreamErrors \cup {CancelledError}
        \cup { SafetyVerdict(Scripts[i][j].content[k]).error :
                 <<i, j, k>> \in { t \in (1..Len(Scripts)) \X (1..5) \X (1..3) :
                                    /\ t[2] <= Len(Scripts[t[1]])
                                    /\ t[3] <= Len(Scripts[t[1]][t[2]].content) } }
KnownCleanupErrors == { e \in KnownErrors \ {Null} : IsCleanupErrorString(e) }

IsCleanupError(errorString) ==
    IF errorString \in KnownErrors
    THEN errorString \in KnownCleanupErrors
    ELSE IsCleanupErrorString(errorString)

(* ------------------------------------------------------------------ *)
(* The persisted session index (SESSION_FILE)                          *)
(* ------------------------------------------------------------------ *)

\* The file is [readable, sessions]: readable is FALSE for a missing,
\* zero-length or unparseable file.
EmptyFile == [readable |-> TRUE, sessions |-> <<>>]

\* session.ts:636-648
LoadSessionHistory(file) == IF file.readable THEN file.sessions ELSE <<>>

\* session.ts:604-609
NewSession(s) ==
    [session_id  |-> s.sessionId,
     saved_at    |-> Date,
     working_dir |-> WORKING_DIR,
     title       |-> IF s.conversationTitle \in {Null, ""}
                     THEN DefaultTitle ELSE s.conversationTitle]

\* Array.prototype.findIndex on session_id, 0 for -1 (positions count from 1)
FindIndex(sessions, id) ==
    IF \E i \in 1..Len(sessions) : sessions[i].session_id = id
    THEN CHOOSE i \in 1..Len(sessions) :
            /\ sessions[i].session_id = id
            /\ \A j \in 1..(i-1) : sessions[j].session_id # id
    ELSE 0

\* a saveSession that adds a new record behind the ones it holds
UpsertAtEnd(sessions, rec) ==
    LET existingIndex == FindIndex(sessions, rec.session_id)
    IN  IF existingIndex # 0
        THEN [sessions EXCEPT ![existingIndex] = rec]
        ELSE Append(sessions, rec)

\* session.ts:611-620
UpsertSession(sessions, rec) ==
    LET existingIndex == FindIndex(sessions, rec.session_id)
    IN  IF existingIndex # 0
        THEN [sessions EXCEPT ![existingIndex] = rec]
        ELSE <<rec>> \o sessions

\* a saveSession that does not truncate the list
KeepAll(sessions) == sessions

\* session.ts:623
KeepLast(sessions) ==
    IF Len(sessions) <= MAX_SESSIONS THEN sessions ELSE SubSeq(sessions, 1, MAX_SESSIONS)

\* session.ts:596-631: the file after saveSession; writeOk is FALSE when
\* the write fails, and the file keeps its content
SaveSession(s, file, writeOk) ==
    IF s.sessionId \in {Null, ""} THEN file
    ELSE IF ~writeOk THEN file
    ELSE [readable |-> TRUE,
          sessions |-> KeepLast(UpsertSession(LoadSessionHistory(file), NewSession(s)))]

\* session.ts:657: a record without working directory matches every directory
InCurrentDir(rec) == rec.working_dir \in {Null, ""} \/ rec.working_dir = WORKING_DIR

\* a filter that drops the records without working directory
InCurrentDirOnly(rec) == rec.working_dir = WORKING_DIR

\* a getSessionList that drops the records without working directory
ListCurrentDirOnly(file) == SelectSeq(LoadSessionHistory(file), InCurrentDirOnly)

\* session.ts:653-659 (Array.prototype.filter keeps the order)
GetSessionList(file) == SelectSeq(LoadSessionHistory(file), InCurrentDir)

\* session.ts:672: the record belongs to another working directory
OtherDir(rec) == rec.working_dir \notin {Null, ""} /\ rec.working_dir # WORKING_DIR

\* a resumeSession that adopts a record whatever its working directory
ResumeAnyDir(s, file, id) ==
    LET sessions == LoadSessionHistory(file)
        found == FindIndex(sessions, id)
    IN  IF found = 0 THEN [ok |-> FALSE, s |-> s]
        ELSE [ok |-> TRUE,
              s  |-> [s EXCEPT !.sessionId = sessions[found].session_id,
                               !.conversationTitle = sessions[found].title,
                               !.lastActivity = Date]]

\* session.ts:664-691: [success, the session after the call]
ResumeSession(s, file, id) ==
    LET sessions == LoadSessionHistory(file)
        found == FindIndex(sessions, id)
    IN  IF found = 0 THEN [ok |-> FALSE, s |-> s]
        ELSE IF OtherDir(sessions[found]) THEN [ok |-> FALSE, s |-> s]
        ELSE [ok |-> TRUE,
              s  |-> [s EXCEPT !.sessionId = sessions[found].session_id,
                               !.conversationTitle = sessions[found].title,
                               !.lastActivity = Date]]

\* session.ts:696-703
ResumeLast(s, file) ==
    LET sessions == GetSessionList(file)
    IN  IF Len(sessions) = 0 THEN [ok |-> FALSE, s |-> s]
        ELSE ResumeSession(s, file, sessions[1].session_id)

(* ------------------------------------------------------------------ *)
(* ClaudeSession: fields and synchronous methods                       *)
(* ------------------------------------------------------------------ *)

\* session.ts:80-95 (lastTool, lastUsage and lastMessage, which the session
\* never reads, are left out).  killed is no field of the class: it records
\* that kill() was called and no send has begun since.
NewClaudeSession ==
    [sessionId         |-> Null,
     lastActivity      |-> Null,
     queryStarted      |-> Null,
     currentTool       |-> Null,
     lastError         |-> Null,
     lastErrorTime     |-> Null,
     conversationTitle |-> Null,
     abortController   |-> Null,
     isQueryRunning    |-> FALSE,
     stopRequested     |-> FALSE,
     isProcessing      |-> FALSE,
     wasInterruptedByNewMessage |-> FALSE,
     killed            |-> FALSE]

\* session.ts:97-99
IsActive(s) == s.sessionId # Null

\* session.ts:101-103
IsRunning(s) == s.isQueryRunning \/ s.isProcessing

\* session.ts:122-124
MarkInterrupt(s) == [s EXCEPT !.wasInterruptedByNewMessage = TRUE]

\* a consumeInterruptFlag that clears the stop request whatever the flag was
ConsumeClearsAlways(s) ==
    [was |-> s.wasInterruptedByNewMessage,
     s   |-> [s EXCEPT !.wasInterruptedByNewMessage = FALSE, !.stopRequested = FALSE]]

\* session.ts:109-117: [what it returns, the session after the call]
ConsumeInterruptFlag(s) ==
    LET was == s.wasInterruptedByNewMessage
        s1  == [s EXCEPT !.wasInterruptedByNewMessage = FALSE]
    IN  [was |-> was,
         s   |-> IF was THEN [s1 EXCEPT !.stopRequested = FALSE] ELSE s1]

\* session.ts:137-138
StartProcessing(s) == [s EXCEPT !.isProcessing = TRUE]

\* session.ts:139-141: the cleanup closure startProcessing returns
StopProcessing(s) == [s EXCEPT !.isProcessing = FALSE]

\* session.ts:148-165: what stop() returns
StopReturn(s) ==
    IF s.isQueryRunning /\ s.abortController # Null THEN "stopped"
    ELSE IF s.isProcessing THEN "pending"
    ELSE "false"

\* a stop() that records the request whatever the state of the session
StopSessionAlways(s) == [s EXCEPT !.stopRequested = TRUE]

\* session.ts:148-165: the session after stop()
StopSession(s) ==
    IF s.isQueryRunning /\ s.abortController # Null
    THEN [s EXCEPT !.stopRequested = TRUE]
    ELSE IF s.isProcessing
    THEN [s EXCEPT !.stopRequested = TRUE]
    ELSE s

\* session.ts:585-590
KillSession(s) ==
    [s EXCEPT !.sessionId = Null, !.lastActivity = Null, !.conversationTitle = Null,
              !.killed = TRUE]

\* a finally block that leaves the cancellation token in place
FinallyKeepsToken(s) ==
    [s EXCEPT !.isQueryRunning = FALSE, !.queryStarted = Null, !.currentTool = Null]

\* a finally block that also forgets the session id
FinallyDropsId(s) ==
    [s EXCEPT !.isQueryRunning = FALSE,
              !.abortController = Null,
              !.queryStarted = Null,
              !.currentTool = Null,
              !.sessionId = Null]

\* session.ts:541-547: the session fields the finally block clears
Finally(s) ==
    [s EXCEPT !.isQueryRunning = FALSE,
              !.abortController = Null,
              !.queryStarted = Null,
              !.currentTool = Null]

\* a token creation that does not record the start of the query
BeginQueryNoStamp(s, h) ==
    [s EXCEPT !.abortController = h,
              !.isQueryRunning = TRUE,
              !.stopRequested = FALSE,
              !.currentTool = Null]

\* session.ts:256-261
BeginQuery(s, h) ==
    [s EXCEPT !.abortController = h,
              !.isQueryRunning = TRUE,
              !.stopRequested = FALSE,
              !.queryStarted = Date,
              !.currentTool = Null]

\* session.ts:549-551
AfterQuery(s) ==
    [s EXCEPT !.lastActivity = Date, !.lastError = Null, !.lastErrorTime = Null]

\* a catch block that records the whole message
RecordErrorWhole(s, error) ==
    [s EXCEPT !.lastError = error, !.lastErrorTime = Date]

\* session.ts:536-538
RecordError(s, error) ==
    [s EXCEPT !.lastError = Slice0(error, 100), !.lastErrorTime = Date]

(* ------------------------------------------------------------------ *)
(* One sendMessageStreaming call: its local variables                  *)
(* ------------------------------------------------------------------ *)

ToolIds == {"t1", "t2", "t3", "t4"}
\* segmentId / toolId argument left undefined
NoSeg == -1

\* The locals of one handler invocation and of the send it makes.
\*   pc      where the invocation is suspended
\*   kind    the kind of message, until its send begins
\*   ctrl    the AbortController this send created: "none", "live", "aborted"
\*   timer   TRUE while inactivityTimer is an armed timeout
\*   blocks  the content blocks of the current event not yet reduced
\*   caught  the error the catch block of this send caught (session.ts:521)
\*   emits   the statusCallback invocations of this send, in order
\*   result  how the send ended: [kind, value]
\*   script, pos  the stream of this send (0 until its first event) and the
\*           number of its events delivered
\*   sid     the session id the backend gave this stream, once an event carried it
\*   stopped      a stop() that returned "stopped" aborted this send's controller
\*   pendingStop  a stop() returned "pending" while this message was processing
\*   message, thinkingTokens  the text of the message and the budget
\*           getThinkingLevel gave for it, -1 before (followed in SpecThinking only)
\*   rejected     the .catch handler of a callback of this send has run
\*   skipped      the event loop dropped an event it had received, because a
\*                stop was requested (session.ts:313-316)
\*   input        the content block last delivered and whether the throttle
\*                interval had passed then (followed in SpecThrottle only)
NoResult == [kind |-> "none", value |-> ""]
NoInput == [block |-> Text(""), elapsed |-> FALSE]
NewLocals ==
    [pc                 |-> "idle",
     kind               |-> Null,
     ctrl               |-> "none",
     resume             |-> Null,
     dated              |-> FALSE,
     responseParts      |-> <<>>,
     currentSegmentId   |-> 0,
     currentSegmentText |-> "",
     lastTextUpdate     |-> 0,
     queryCompleted     |-> FALSE,
     askUserTriggered   |-> FALSE,
     pendingTools       |-> [i \in ToolIds |-> Null],
     timer              |-> FALSE,
     timedOut           |-> FALSE,
     blocks             |-> <<>>,
     error              |-> Null,
     caught             |-> Null,
     emits              |-> <<>>,
     result             |-> NoResult,
     script             |-> 0,
     pos                |-> 0,
     sid                |-> Null,
     stopped            |-> FALSE,
     pendingStop        |-> FALSE,
     rejected           |-> FALSE,
     skipped            |-> FALSE,
     message            |-> "",
     thinkingTokens     |-> -1,
     input              |-> NoInput]

\* one statusCallback(kind, text, segmentId, toolId) invocation; awaited tells
\* whether the send awaits the promise of the call, open whether the current
\* segment holds text when the call is made
Invoke(q, kind, text, seg, tool, awaited) ==
    [q EXCEPT !.emits = Append(@, [kind |-> kind, text |-> text, seg |-> seg, tool |-> tool,
                                   awaited |-> awaited,
                                   open |-> q.currentSegmentText # ""])]

\* statusCallback(...).catch(...): the send goes on at once
Emit(q, kind, text, seg, tool) == Invoke(q, kind, text, seg, tool, FALSE)

\* await statusCallback(...)
EmitAwaited(q, kind, text, seg, tool) == Invoke(q, kind, text, seg, tool, TRUE)

\* a tool start that ends the segment without a new segment id
CloseSegmentSameId(q) ==
    IF q.currentSegmentText # ""
    THEN [Emit(q, "segment_end", q.currentSegmentText, q.currentSegmentId, Null)
            EXCEPT !.currentSegmentText = ""]
    ELSE q

RECURSIVE Join(_)
\* Array.prototype.join("")
Join(parts) == IF parts = <<>> THEN "" ELSE Head(parts) \o Join(Tail(parts))

\* session.ts:446-450: now - lastTextUpdate > STREAMING_THROTTLE_MS; lastTextUpdate
\* is 0 until the first update, and elapsed tells whether the interval has
\* passed since a later one
ThrottlePassed(lastTextUpdate, elapsed) == lastTextUpdate = 0 \/ elapsed

\* a throttle test that lets either condition pass
ShouldStreamEither(q, elapsed) ==
    ThrottlePassed(q.lastTextUpdate, elapsed) \/ Len(q.currentSegmentText) > 20

\* session.ts:447-450
ShouldStreamText(q, elapsed) ==
    ThrottlePassed(q.lastTextUpdate, elapsed) /\ Len(q.currentSegmentText) > 20

\* session.ts:375-384
CloseSegment(q) ==
    IF q.currentSegmentText # ""
    THEN [Emit(q, "segment_end", q.currentSegmentText, q.currentSegmentId, Null)
            EXCEPT !.currentSegmentId = @ + 1, !.currentSegmentText = ""]
    ELSE q

\* session.ts:392-407
TrackTool(q, block, toolDisplay) ==
    LET q1 == IF block.id # "" THEN [q EXCEPT !.pendingTools[block.id] = toolDisplay] ELSE q
    IN  IF ~StartsWith(block.name, "mcp__ask-user")
        THEN Emit(q1, "tool", toolDisplay, NoSeg, IF block.id # "" THEN block.id ELSE Null)
        ELSE IF block.id # "" THEN [q1 EXCEPT !.pendingTools[block.id] = Null]
        ELSE q1

RECURSIVE RunBlocks(_, _, _, _)
\* session.ts:327-459: the content blocks of an assistant event, reduced in order
\* up to the first await; q.pc tells where the run stopped ("blocksDone" when
\* the loop ended) and q.blocks what is left
RunBlocks(q, s, blocks, elapsed) ==
    IF blocks = <<>>
    THEN [q |-> [q EXCEPT !.pc = "blocksDone", !.blocks = <<>>], s |-> s]
    ELSE
    LET block == Head(blocks)
        rest  == Tail(blocks)
    IN
    CASE block.type = "thinking" ->
            RunBlocks(IF block.text # ""
                      THEN Emit(q, "thinking", block.text, NoSeg, Null)
                      ELSE q,
                      s, rest, elapsed)
      [] block.type = "tool_use" ->
            LET verdict == SafetyVerdict(block)
            IN
            IF verdict.error # Null
            THEN [q |-> [EmitAwaited(q, "tool", verdict.status, NoSeg, Null)
                            EXCEPT !.pc = "await_blocked", !.blocks = rest,
                                   !.error = verdict.error],
                  s |-> s]
            ELSE
            LET toolDisplay == FormatToolStatus(block.name, block.input)
                q1 == TrackTool(CloseSegment(q), block, toolDisplay)
                s1 == [s EXCEPT !.currentTool = toolDisplay]
            IN
            IF StartsWith(block.name, "mcp__ask-user")
            THEN [q |-> [q1 EXCEPT !.pc = "await_askuser", !.blocks = rest], s |-> s1]
            ELSE RunBlocks(q1, s1, rest, elapsed)
      [] block.type = "text" ->
            LET q1 == [q EXCEPT !.responseParts = Append(@, block.text),
                                !.currentSegmentText = @ \o block.text]
            IN
            IF ShouldStreamText(q1, elapsed)
            THEN [q |-> [EmitAwaited(q1, "text", q1.currentSegmentText, q1.currentSegmentId, Null)
                            EXCEPT !.pc = "await_text", !.blocks = rest],
                  s |-> s]
            ELSE RunBlocks(q1, s, rest, elapsed)
      [] OTHER -> RunBlocks(q, s, rest, elapsed)

\* session.ts:461-464: after the blocks of an assistant event, leave the event
\* loop when ask_user was triggered ("closing": the break awaits the
\* iterator's return()), else await the next event
ContinueBlocks(q, s, elapsed) ==
    LET r == RunBlocks(q, s, q.blocks, elapsed)
    IN  IF r.q.pc = "blocksDone"
        THEN [r EXCEPT !.q.pc = IF r.q.askUserTriggered THEN "closing" ELSE "stream"]
        ELSE r

RECURSIVE ToolResultsKeep(_, _)
\* a result loop that leaves the identifier in the table
ToolResultsKeep(q, content) ==
    IF content = <<>> THEN q
    ELSE
    LET b == Head(content)
    IN  IF b.type = "tool_result" /\ b.id # "" /\ q.pendingTools[b.id] \notin {Null, ""}
        THEN ToolResultsKeep(
                Emit(q, "tool_done", FormatToolDoneStatus(q.pendingTools[b.id]), NoSeg, b.id),
                Tail(content))
        ELSE ToolResultsKeep(q, Tail(content))

RECURSIVE ToolResults(_, _)
\* session.ts:467-500 (the summary appended to the display is left out)
ToolResults(q, content) ==
    IF content = <<>> THEN q
    ELSE
    LET b == Head(content)
    IN  IF b.type = "tool_result" /\ b.id # "" /\ q.pendingTools[b.id] \notin {Null, ""}
        THEN ToolResults(
                Emit([q EXCEPT !.pendingTools[b.id] = Null],
                     "tool_done", FormatToolDoneStatus(q.pendingTools[b.id]), NoSeg, b.id),
                Tail(content))
        ELSE ToolResults(q, Tail(content))

\* session.ts:564-574 and 577-579: what the send returns
TimeoutReturn(q) ==
    LET partial == Join(q.responseParts)
    IN  IF partial # "" THEN partial \o "\n\n" \o TimeoutNotice ELSE TimeoutNotice

\* a normal return without the sentinel for the empty response
NormalReturnVerbatim(q) == Join(q.responseParts)

NormalReturn(q) ==
    IF Join(q.responseParts) # "" THEN Join(q.responseParts) ELSE NoResponse

Returning(q, value) ==
    [EmitAwaited(q, "done", "", NoSeg, Null)
        EXCEPT !.pc = "await_done", !.result = [kind |-> "returning", value |-> value]]

\* session.ts:564-579, up to the next await
AfterFinalSegment(q) ==
    IF q.timedOut
    THEN [EmitAwaited(q, "text", TimeoutNotice, q.currentSegmentId + 1, Null)
            EXCEPT !.pc = "await_notice_text"]
    ELSE Returning(q, NormalReturn(q))

\* a result assembly that flushes the open segment before it looks at the
\* ask-user flag
EndQueryFlushFirst(q, s) ==
    LET q1 == [q EXCEPT !.timer = FALSE]
        s1 == AfterQuery(Finally(s))
    IN  IF q1.currentSegmentText # ""
        THEN [q |-> [EmitAwaited(q1, "segment_end", q1.currentSegmentText, q1.currentSegmentId, Null)
                        EXCEPT !.pc = "await_final_segment"],
              s |-> s1]
        ELSE IF q1.askUserTriggered
        THEN [q |-> Returning(q1, WaitingForUser), s |-> s1]
        ELSE [q |-> AfterFinalSegment(q1), s |-> s1]

\* a result assembly that flushes the open segment only when a "text" update
\* was emitted during the send
EndQueryFlushStreamed(q, s) ==
    LET q1 == [q EXCEPT !.timer = FALSE]
        s1 == AfterQuery(Finally(s))
    IN  IF q1.askUserTriggered
        THEN [q |-> Returning(q1, WaitingForUser), s |-> s1]
        ELSE IF q1.currentSegmentText # "" /\ q1.lastTextUpdate # 0
        THEN [q |-> [EmitAwaited(q1, "segment_end", q1.currentSegmentText, q1.currentSegmentId, Null)
                        EXCEPT !.pc = "await_final_segment"],
              s |-> s1]
        ELSE [q |-> AfterFinalSegment(q1), s |-> s1]

\* a result assembly that does not flush the open segment
EndQueryNoFlush(q, s) ==
    LET q1 == [q EXCEPT !.timer = FALSE]
        s1 == AfterQuery(Finally(s))
    IN  IF q1.askUserTriggered
        THEN [q |-> Returning(q1, WaitingForUser), s |-> s1]
        ELSE [q |-> AfterFinalSegment(q1), s |-> s1]

\* session.ts:541-562: the finally block and the code after it, up to the
\* next await
EndQuery(q, s) ==
    LET q1 == [q EXCEPT !.timer = FALSE]
        s1 == AfterQuery(Finally(s))
    IN  IF q1.askUserTriggered
        THEN [q |-> Returning(q1, WaitingForUser), s |-> s1]
        ELSE IF q1.currentSegmentText # ""
        THEN [q |-> [EmitAwaited(q1, "segment_end", q1.currentSegmentText, q1.currentSegmentId, Null)
                        EXCEPT !.pc = "await_final_segment"],
              s |-> s1]
        ELSE [q |-> AfterFinalSegment(q1), s |-> s1]

\* a catch block that does not look at the timed-out flag
SuppressedNoTimeout(q, s, error) ==
    /\ IsCleanupError(error)
    /\ q.queryCompleted \/ q.askUserTriggered \/ s.stopRequested

\* session.ts:526-529
Suppressed(q, s, error) ==
    /\ IsCleanupError(error)
    /\ q.queryCompleted \/ q.askUserTriggered \/ s.stopRequested \/ q.timedOut

\* a send that reports "done" before it throws
ThrowAfterDone(q, error) ==
    [Emit(q, "done", "", NoSeg, Null)
        EXCEPT !.pc = "catch", !.timer = FALSE, !.result = [kind |-> "threw", value |-> error]]

\* the send throws: the handler's catch block runs up to its first await
Throw(q, error) ==
    [q EXCEPT !.pc = "catch", !.timer = FALSE, !.result = [kind |-> "threw", value |-> error]]

\* session.ts:521-547: an error raised inside the try block
CatchError(q, s, error) ==
    LET q1 == [q EXCEPT !.caught = error]
    IN  IF Suppressed(q, s, error)
        THEN EndQuery(q1, s)
        ELSE [q |-> Throw(q1, error), s |-> Finally(RecordError(s, error))]

\* session.ts:300-517: one event of the stream, up to the next await
ConsumeEvent(q, s, file, event, sid, elapsed, writeOk) ==
    LET q0 == [q EXCEPT !.timer = TRUE]
    IN
    IF s.stopRequested
    THEN [q |-> [q0 EXCEPT !.pc = "closing", !.skipped = TRUE], s |-> s, file |-> file]
    ELSE
    LET capture == s.sessionId \in {Null, ""} /\ sid \notin {Null, ""}
        s1 == IF capture THEN [s EXCEPT !.sessionId = sid] ELSE s
        file1 == IF capture THEN SaveSession(s1, file, writeOk) ELSE file
    IN
    CASE event.type = "assistant" ->
            LET r == ContinueBlocks([q0 EXCEPT !.blocks = event.content], s1, elapsed)
            IN  [q |-> r.q, s |-> r.s, file |-> file1]
      [] event.type = "user" ->
            [q |-> ToolResults(q0, event.content), s |-> s1, file |-> file1]
      [] event.type = "result" ->
            [q |-> [q0 EXCEPT !.queryCompleted = TRUE], s |-> s1, file |-> file1]
      [] OTHER -> [q |-> q0, s |-> s1, file |-> file1]

\* a send that prepends the date line to every prompt
SendEnterDatesAlways(q, s, h) ==
    LET isNewSession == ~IsActive(s)
        s0 == IF s.sessionId \notin {Null, ""} /\ ~isNewSession
              THEN [s EXCEPT !.killed = FALSE]
              ELSE [s EXCEPT !.sessionId = Null, !.killed = FALSE]
    IN  IF s0.stopRequested
        THEN [q |-> Throw(q, CancelledError),
              s |-> [s0 EXCEPT !.stopRequested = FALSE]]
        ELSE [q |-> [q EXCEPT !.pc = "stream",
                              !.kind = Null,
                              !.ctrl = "live",
                              !.resume = IF s.sessionId \in {Null, ""} THEN Null ELSE s.sessionId,
                              !.dated = TRUE,
                              !.timer = TRUE],
              s |-> BeginQuery(s0, h)]

\* session.ts:185-287: sendMessageStreaming up to its first await, called by
\* handler h
SendEnter(q, s, h) ==
    LET isNewSession == ~IsActive(s)
        s0 == IF s.sessionId \notin {Null, ""} /\ ~isNewSession
              THEN [s EXCEPT !.killed = FALSE]
              ELSE [s EXCEPT !.sessionId = Null, !.killed = FALSE]
    IN  IF s0.stopRequested
        THEN [q |-> Throw(q, CancelledError),
              s |-> [s0 EXCEPT !.stopRequested = FALSE]]
        ELSE [q |-> [q EXCEPT !.pc = "stream",
                              !.kind = Null,
                              !.ctrl = "live",
                              !.resume = IF s.sessionId \in {Null, ""} THEN Null ELSE s.sessionId,
                              !.dated = isNewSession,
                              !.timer = TRUE],
              s |-> BeginQuery(s0, h)]

(* ------------------------------------------------------------------ *)
(* State                                                               *)
(* ------------------------------------------------------------------ *)

VARIABLES
    session,      \* the global ClaudeSession instance (session.ts:707)
    sessionFile,  \* the content of SESSION_FILE
    hs,           \* the locals of each handler invocation
    arrivals,     \* messages arrived so far
    mode          \* "solo": one handler at a time; "duo": handlers may overlap

vars == <<session, sessionFile, hs, arrivals, mode>>

Init ==
    /\ session = NewClaudeSession
    /\ sessionFile = EmptyFile
    /\ hs = [h \in Handlers |-> NewLocals]
    /\ arrivals = 0
    /\ mode \in {"solo", "duo"}

\* AbortController.abort() on the controller this.abortController holds
Abort(locals, s) ==
    IF s.abortController # Null
    THEN [locals EXCEPT ![s.abortController].ctrl = "aborted"]
    ELSE locals

\* the session ids some record, the session or a stream holds
UsedIds ==
    { sessionFile.sessions[i].session_id : i \in 1..Len(sessionFile.sessions) }
        \cup {session.sessionId}
        \cup { hs[h].sid : h \in Handlers } \cup { hs[h].resume : h \in Handlers }

\* the session id the events of h's stream carry: the resumed one, or a new one
StreamSids(h) ==
    IF hs[h].sid # Null THEN {hs[h].sid}
    ELSE IF hs[h].resume # Null THEN {hs[h].resume}
    ELSE IF SessionIds \subseteq UsedIds THEN {}
    ELSE LET free == { i \in 1..Len(SessionIdSeq) : SessionIdSeq[i] \notin UsedIds }
         IN  {SessionIdSeq[CHOOSE i \in free : \A j \in free : i <= j]}

(* ------------------------------------------------------------------ *)
(* Handlers (part_000:149-234 handleText, part_000:22-133 handleVoice, *)
(* document.ts:102-165 processDocuments)                               *)
(* ------------------------------------------------------------------ *)

MessageKinds == {"text", "voice", "document", "document_nocaption"}

\* A message arrives and its handler runs up to its first await after
\* startProcessing(): intent classification (text, document with caption),
\* download and transcription (voice); a document without caption goes
\* straight into sendMessageStreaming.
Arrive(h) ==
    /\ hs[h].pc = "idle"
    /\ arrivals < MaxMessages
    /\ mode = "solo" => h = "h1"
    /\ mode = "duo" => IF h = "h1" THEN arrivals = 0
                                    ELSE arrivals = 1 /\ hs["h1"].pc # "idle"
    /\ \E kind \in MessageKinds :
          LET q == [NewLocals EXCEPT !.kind = kind]
              s == StartProcessing(session)
          IN  IF kind = "document_nocaption"
              THEN LET r == SendEnter(q, s, h)
                   IN  /\ session' = r.s
                       /\ hs' = [hs EXCEPT ![h] = r.q]
              ELSE /\ session' = s
                   /\ hs' = [hs EXCEPT ![h] = [q EXCEPT !.pc = "classify"]]
    /\ arrivals' = arrivals + 1
    /\ UNCHANGED <<sessionFile, mode>>

\* The message passes classification and the handler calls sendMessageStreaming.
IntentPassed(h) ==
    /\ hs[h].pc = "classify"
    /\ LET r == SendEnter(hs[h], session, h)
       IN  session' = r.s /\ hs' = [hs EXCEPT ![h] = r.q]
    /\ UNCHANGED <<sessionFile, arrivals, mode>>

\* The message is rejected before the send: blocked intent (part_000:184-190,
\* document.ts:132-138), and for voice also a failed download or transcription
\* (part_000:77-94, 112-119), where the cleanup runs after the replies.
IntentBlocked(h) ==
    /\ hs[h].pc = "classify"
    /\ IF hs[h].kind = "voice"
       THEN session' = session /\ hs' = [hs EXCEPT ![h].pc = "reply"]
       ELSE session' = StopProcessing(session) /\ hs' = [hs EXCEPT ![h] = NewLocals]
    /\ UNCHANGED <<sessionFile, arrivals, mode>>

\* The handler's last awaits are over and its finally block runs
\* stopProcessing() (part_000:120-122, 230-233, document.ts:161-164).
HandlerExit(h) ==
    /\ hs[h].pc \in {"audit", "catch", "reply"}
    /\ session' = StopProcessing(session)
    /\ hs' = [hs EXCEPT ![h] = NewLocals]
    /\ UNCHANGED <<sessionFile, arrivals, mode>>

(* ------------------------------------------------------------------ *)
(* The stream of one query                                             *)
(* ------------------------------------------------------------------ *)

\* the first p events of script i, or all of them
Prefix(i, p) == SubSeq(Scripts[i], 1, IF p < Len(Scripts[i]) THEN p ELSE Len(Scripts[i]))

\* Streams that delivered the same events are the same stream: the first
\* script that begins with the first p events of script i (computed once).
CanonTable ==
    [i \in 1..Len(Scripts) |->
        [p \in 0..MaxEvents |->
            CHOOSE j \in 1..Len(Scripts) :
                /\ Prefix(j, p) = Prefix(i, p)
                /\ \A k \in 1..(j-1) : Prefix(k, p) # Prefix(i, p)]]

\* the scripts h's stream may be following
Following(h) ==
    IF hs[h].script = 0 THEN 1..Len(Scripts)
    ELSE { i \in 1..Len(Scripts) :
             /\ Len(Scripts[i]) >= hs[h].pos
             /\ CanonTable[i][hs[h].pos] = hs[h].script }

\* The iterator yields the next event of its stream (session.ts:300); the send
\* reduces it up to the next await.  elapsed: the throttle interval has
\* passed; writeOk: the write of SESSION_FILE succeeds.  When handlers may
\* overlap a stream delivers its first event only.
StreamEvent(h) ==
    /\ hs[h].pc = "stream"
    /\ hs[h].pos < MaxEvents
    /\ mode = "duo" => hs[h].pos = 0
    /\ \E script \in Following(h),
          elapsed \in (IF hs[h].lastTextUpdate = 0 THEN {TRUE} ELSE BOOLEAN),
          writeOk \in (IF session.sessionId = Null THEN BOOLEAN ELSE {TRUE}) :
          /\ hs[h].pos < Len(Scripts[script])
          /\ LET event == Scripts[script][hs[h].pos + 1]
                 sid == IF event.hasId /\ StreamSids(h) # {}
                        THEN CHOOSE i \in StreamSids(h) : TRUE ELSE Null
                 q == [hs[h] EXCEPT !.script = CanonTable[script][hs[h].pos + 1],
                                    !.pos = @ + 1,
                                    !.sid = IF sid # Null THEN sid ELSE @]
                 r == ConsumeEvent(q, session, sessionFile, event, sid, elapsed, writeOk)
             IN  /\ session' = r.s
                 /\ sessionFile' = r.file
                 /\ hs' = [hs EXCEPT ![h] = r.q]
    /\ UNCHANGED <<arrivals, mode>>

\* The iterator is done: the stream ended by itself.
StreamEnd(h) ==
    /\ hs[h].pc = "stream"
    /\ LET r == EndQuery(hs[h], session)
       IN  session' = r.s /\ hs' = [hs EXCEPT ![h] = r.q]
    /\ UNCHANGED <<sessionFile, arrivals, mode>>

\* The iterator raises: a cancellation error once its controller is aborted,
\* a transport fault at any time.
StreamError(h) ==
    /\ hs[h].pc = "stream"
    /\ \E error \in StreamErrors :
          /\ error = AbortErrorStr => hs[h].ctrl = "aborted"
          /\ LET r == CatchError(hs[h], session, error)
             IN  session' = r.s /\ hs' = [hs EXCEPT ![h] = r.q]
    /\ UNCHANGED <<sessionFile, arrivals, mode>>

\* The break out of the event loop (session.ts:315, 463) has closed the
\* iterator.
LoopLeft(h) ==
    /\ hs[h].pc = "closing"
    /\ LET r == EndQuery(hs[h], session)
       IN  session' = r.s /\ hs' = [hs EXCEPT ![h] = r.q]
    /\ UNCHANGED <<sessionFile, arrivals, mode>>

\* The awaited "text" update is sent (session.ts:451-456); the block loop goes on.
TextSent(h) ==
    /\ hs[h].pc = "await_text"
    /\ \E elapsed \in BOOLEAN :
          LET r == ContinueBlocks([hs[h] EXCEPT !.lastTextUpdate = 1], session, elapsed)
          IN  session' = r.s /\ hs' = [hs EXCEPT ![h] = r.q]
    /\ UNCHANGED <<sessionFile, arrivals, mode>>

\* The awaited status of a blocked tool is sent (session.ts:350, 369) and the
\* error is thrown (session.ts:351, 370).
BlockedThrown(h) ==
    /\ hs[h].pc = "await_blocked"
    /\ LET r == CatchError(hs[h], session, hs[h].error)
       IN  session' = r.s /\ hs' = [hs EXCEPT ![h] = r.q]
    /\ UNCHANGED <<sessionFile, arrivals, mode>>

\* The waits and retries for the ask_user buttons are over (session.ts:410-428).
AskUserChecked(h) ==
    /\ hs[h].pc = "await_askuser"
    /\ \E buttonsSent \in BOOLEAN, elapsed \in BOOLEAN :
          LET q == [hs[h] EXCEPT !.askUserTriggered = @ \/ buttonsSent]
              r == ContinueBlocks(q, session, elapsed)
          IN  session' = r.s /\ hs' = [hs EXCEPT ![h] = r.q]
    /\ UNCHANGED <<sessionFile, arrivals, mode>>

\* The awaited final "segment_end" is sent (session.ts:561).
FinalSegmentSent(h) ==
    /\ hs[h].pc = "await_final_segment"
    /\ hs' = [hs EXCEPT ![h] = AfterFinalSegment(hs[h])]
    /\ UNCHANGED <<session, sessionFile, arrivals, mode>>

\* The awaited "text" of the timeout notice is sent (session.ts:571-572).
NoticeTextSent(h) ==
    /\ hs[h].pc = "await_notice_text"
    /\ hs' = [hs EXCEPT ![h] =
                [EmitAwaited(hs[h], "segment_end", TimeoutNotice, hs[h].currentSegmentId + 1, Null)
                    EXCEPT !.pc = "await_notice_end"]]
    /\ UNCHANGED <<session, sessionFile, arrivals, mode>>

\* The awaited "segment_end" of the timeout notice is sent (session.ts:572-574).
NoticeEndSent(h) ==
    /\ hs[h].pc = "await_notice_end"
    /\ hs' = [hs EXCEPT ![h] = Returning(hs[h], TimeoutReturn(hs[h]))]
    /\ UNCHANGED <<session, sessionFile, arrivals, mode>>

\* The awaited "done" is sent and the send returns (session.ts:556, 574, 579);
\* the handler awaits its audit log.
SendReturns(h) ==
    /\ hs[h].pc = "await_done"
    /\ hs' = [hs EXCEPT ![h].pc = "audit", ![h].result.kind = "returned"]
    /\ UNCHANGED <<session, sessionFile, arrivals, mode>>

\* The inactivity timer of h's send fires (session.ts:279-285).
TimerFires(h) ==
    /\ hs[h].timer
    /\ hs' = Abort([hs EXCEPT ![h].timedOut = TRUE, ![h].timer = FALSE], session)
    /\ UNCHANGED <<session, sessionFile, arrivals, mode>>

(* ------------------------------------------------------------------ *)
(* Commands                                                            *)
(* ------------------------------------------------------------------ *)

\* session.stop() (session.ts:148-165)
Stop ==
    /\ session' = StopSession(session)
    /\ hs' = IF StopReturn(session) = "stopped"
             THEN [Abort(hs, session) EXCEPT ![session.abortController].stopped = TRUE]
             ELSE IF StopReturn(session) = "pending"
             THEN [h \in Handlers |->
                     IF hs[h].pc = "classify" THEN [hs[h] EXCEPT !.pendingStop = TRUE] ELSE hs[h]]
             ELSE hs
    /\ UNCHANGED <<sessionFile, arrivals, mode>>

\* session.kill() (session.ts:585-590)
Kill ==
    /\ session' = KillSession(session)
    /\ UNCHANGED <<sessionFile, hs, arrivals, mode>>

Next ==
    \/ \E h \in Handlers :
          \/ Arrive(h)
          \/ IntentPassed(h)
          \/ IntentBlocked(h)
          \/ HandlerExit(h)
          \/ StreamEvent(h)
          \/ StreamEnd(h)
          \/ StreamError(h)
          \/ LoopLeft(h)
          \/ TextSent(h)
          \/ BlockedThrown(h)
          \/ AskUserChecked(h)
          \/ FinalSegmentSent(h)
          \/ NoticeTextSent(h)
          \/ NoticeEndSent(h)
          \/ SendReturns(h)
          \/ TimerFires(h)
    \/ Stop
    \/ Kill

Spec == Init /\ [][Next]_vars

(* ------------------------------------------------------------------ *)
(* One handler at a time, with status callbacks that may reject: the   *)
(* promise of a callback the send does not await is rejected at any    *)
(* later moment, and its .catch handler runs                           *)
(* ------------------------------------------------------------------ *)

\* a .catch-less call: the rejection surfaces in the send as an error
OnRejectedThrows(q, s) == CatchError([q EXCEPT !.rejected = TRUE], s, FaultErrorStr)

\* session.ts:333-335, 379-381, 401-403, 493-495: the .catch handler logs the
\* failure; rejected records that it ran
OnRejected(q, s) == [q |-> [q EXCEPT !.rejected = TRUE], s |-> s]

InitReject == Init /\ mode = "solo"

CallbackRejected(h) ==
    /\ ~hs[h].rejected
    /\ \E i \in 1..Len(hs[h].emits) : ~hs[h].emits[i].awaited
    /\ LET r == OnRejected(hs[h], session)
       IN  session' = r.s /\ hs' = [hs EXCEPT ![h] = r.q]
    /\ UNCHANGED <<sessionFile, arrivals, mode>>

NextReject == Next \/ \E h \in Handlers : CallbackRejected(h)

SpecReject == InitReject /\ [][NextReject]_vars

(* ------------------------------------------------------------------ *)
(* One handler at a time, with the interrupt flag: markInterrupt() and *)
(* consumeInterruptFlag() are called at any moment                     *)
(* ------------------------------------------------------------------ *)

MarkInterruptCalled ==
    /\ session' = MarkInterrupt(session)
    /\ UNCHANGED <<sessionFile, hs, arrivals, mode>>

ConsumeInterruptFlagCalled ==
    /\ session' = ConsumeInterruptFlag(session).s
    /\ UNCHANGED <<sessionFile, hs, arrivals, mode>>

NextInterrupt == Next \/ MarkInterruptCalled \/ ConsumeInterruptFlagCalled

SpecInterrupt == InitReject /\ [][NextInterrupt]_vars

(* ------------------------------------------------------------------ *)
(* The thinking budget of a message                                    *)
(* ------------------------------------------------------------------ *)

\* the keyword sets of the configuration: a deep keyword that holds a normal
\* one, and the deep keyword of "explain deeply the halting problem"
THINKING_DEEP_KEYWORDS == {"think hard", "deeply"}
THINKING_KEYWORDS == {"think", "reason"}

\* a getThinkingLevel that looks at the normal keywords first
NormalTierFirst(message) ==
    LET msgLower == ToLowerCase(message)
    IN  IF \E k \in THINKING_KEYWORDS : Includes(msgLower, k) THEN 10000
        ELSE IF \E k \in THINKING_DEEP_KEYWORDS : Includes(msgLower, k) THEN 50000
        ELSE 0

\* session.ts:41-56
GetThinkingLevel(message) ==
    LET msgLower == ToLowerCase(message)
    IN  IF \E k \in THINKING_DEEP_KEYWORDS : Includes(msgLower, k) THEN 50000
        ELSE IF \E k \in THINKING_KEYWORDS : Includes(msgLower, k) THEN 10000
        ELSE 0

RECURSIVE MessagesOf(_)
\* the messages of up to n words
MessagesOf(n) ==
    IF n = 0 THEN {""}
    ELSE MessagesOf(n - 1) \cup
         { m \o w : m \in MessagesOf(n - 1),
                    w \in {"hi ", "Think ", "HARD ", "Explain DEEPLY ", "reasons "} }

InitThinking ==
    /\ session = NewClaudeSession
    /\ sessionFile = EmptyFile
    /\ \E m \in MessagesOf(MaxWords) :
          hs = [h \in Handlers |-> IF h = "h1" THEN [NewLocals EXCEPT !.message = m]
                                                ELSE NewLocals]
    /\ arrivals = 0
    /\ mode = "thinking"

\* session.ts:188: const thinkingTokens = getThinkingLevel(message)
Level ==
    /\ hs["h1"].thinkingTokens = -1
    /\ hs' = [hs EXCEPT !["h1"].thinkingTokens = GetThinkingLevel(hs["h1"].message)]
    /\ UNCHANGED <<session, sessionFile, arrivals, mode>>

SpecThinking == InitThinking /\ [][Level]_vars

(* ------------------------------------------------------------------ *)
(* One message at a time, and stop() called only while no query is     *)
(* running                                                             *)
(* ------------------------------------------------------------------ *)

\* session.stop() called while it returns "pending" or false
\* (session.ts:157-164)
StopPending ==
    /\ StopReturn(session) # "stopped"
    /\ Stop

NextPending ==
    \/ \E h \in Handlers :
          \/ Arrive(h)
          \/ IntentPassed(h)
          \/ IntentBlocked(h)
          \/ HandlerExit(h)
          \/ StreamEvent(h)
          \/ StreamEnd(h)
          \/ StreamError(h)
          \/ LoopLeft(h)
          \/ TextSent(h)
          \/ BlockedThrown(h)
          \/ AskUserChecked(h)
          \/ FinalSegmentSent(h)
          \/ NoticeTextSent(h)
          \/ NoticeEndSent(h)
          \/ SendReturns(h)
          \/ TimerFires(h)
    \/ StopPending
    \/ Kill

SpecPending == InitReject /\ [][NextPending]_vars

(* ------------------------------------------------------------------ *)
(* One message at a time, and classifyIntent may raise                 *)
(* ------------------------------------------------------------------ *)

\* classifyIntent rejects.  handleText (part_000:183) and processDocuments
\* (document.ts:131) await it outside their try block, so the handler throws
\* and its cleanup does not run; handleVoice (part_000:91) awaits it inside,
\* so its catch block replies and its finally block runs the cleanup.
IntentRaises(h) ==
    /\ hs[h].pc = "classify"
    /\ hs' = [hs EXCEPT ![h] = IF hs[h].kind = "voice"
                                THEN [hs[h] EXCEPT !.pc = "catch"]
                                ELSE NewLocals]
    /\ UNCHANGED <<session, sessionFile, arrivals, mode>>

NextRaise == Next \/ \E h \in Handlers : IntentRaises(h)

SpecRaise == InitReject /\ [][NextRaise]_vars

(* ------------------------------------------------------------------ *)
(* The text throttle alone: one send receives assistant events of one  *)
(* content block each                                                  *)
(* ------------------------------------------------------------------ *)

MaxBlocks == 4

ThrottleBlocks == {Text(ShortText), Text(LongText), ToolUse("Bash", "ls", "t1")}

\* the send of a text message has begun (session.ts:185-287)
InitThrottle ==
    /\ LET r == SendEnter(NewLocals, StartProcessing(NewClaudeSession), "h1")
       IN  /\ session = r.s
           /\ hs = [h \in Handlers |-> IF h = "h1" THEN r.q ELSE NewLocals]
    /\ sessionFile = EmptyFile
    /\ arrivals = 1
    /\ mode = "throttle"

\* session.ts:300-459: an assistant event with one content block is received,
\* with or without the throttle interval passed since lastTextUpdate
Block ==
    /\ hs["h1"].pc = "stream"
    /\ hs["h1"].pos < MaxBlocks
    /\ \E block \in ThrottleBlocks,
          elapsed \in (IF hs["h1"].lastTextUpdate = 0 THEN {TRUE} ELSE BOOLEAN) :
          LET q == [hs["h1"] EXCEPT !.pos = @ + 1,
                                    !.input = [block |-> block, elapsed |-> elapsed]]
              r == ConsumeEvent(q, session, sessionFile, Event("assistant", FALSE, <<block>>),
                                Null, elapsed, TRUE)
          IN  /\ session' = r.s
              /\ sessionFile' = r.file
              /\ hs' = [hs EXCEPT !["h1"] = r.q]
    /\ UNCHANGED <<arrivals, mode>>

NextThrottle == Block \/ TextSent("h1")

SpecThrottle == InitThrottle /\ [][NextThrottle]_vars

(* ------------------------------------------------------------------ *)
(* The session index alone: ids are captured and saved, sessions are   *)
(* killed, with no query in between                                    *)
(* ------------------------------------------------------------------ *)

InitIndex ==
    /\ session = NewClaudeSession
    /\ sessionFile = EmptyFile
    /\ hs = [h \in Handlers |-> NewLocals]
    /\ arrivals = 0
    /\ mode = "index"

\* session.ts:319-323: a session without id captures the id of an event and
\* saves itself; arrivals counts the saves
Capture ==
    /\ session.sessionId = Null
    /\ arrivals < MaxSaves
    /\ \E i \in 1..MaxIds, writeOk \in BOOLEAN :
          /\ session' = [session EXCEPT !.sessionId = SessionIdSeq[i]]
          /\ sessionFile' = SaveSession(session', sessionFile, writeOk)
    /\ arrivals' = arrivals + 1
    /\ UNCHANGED <<hs, mode>>

NextIndex == Capture \/ Kill

SpecIndex == InitIndex /\ [][NextIndex]_vars

(* ------------------------------------------------------------------ *)
(* Filling an empty index with distinct ids: ids are saved in the      *)
(* order of SessionIdSeq, any of them may be left out, and arrivals    *)
(* holds the set of the ids saved so far as a bit set (bit i-1 for     *)
(* SessionIdSeq[i])                                                    *)
(* ------------------------------------------------------------------ *)

Pow2(n) == 2^n

HasBit(mask, i) == (mask \div Pow2(i - 1)) % 2 = 1

\* the positions in SessionIdSeq of the ids saved so far, oldest first
RECURSIVE SavedFrom(_, _)
SavedFrom(mask, i) ==
    IF i > MaxSaves THEN <<>>
    ELSE IF HasBit(mask, i) THEN <<i>> \o SavedFrom(mask, i + 1)
    ELSE SavedFrom(mask, i + 1)

Saved == SavedFrom(arrivals, 1)

InitFill ==
    /\ session = NewClaudeSession
    /\ sessionFile = EmptyFile
    /\ hs = [h \in Handlers |-> NewLocals]
    /\ arrivals = 0
    /\ mode = "fill"

\* session.ts:319-323: a session without id captures an id that was never
\* saved before and saves itself; the write succeeds
SaveFresh ==
    /\ session.sessionId = Null
    /\ \E i \in 1..MaxSaves :
          /\ \A j \in i..MaxSaves : ~HasBit(arrivals, j)
          /\ session' = [session EXCEPT !.sessionId = SessionIdSeq[i]]
          /\ sessionFile' = SaveSession(session', sessionFile, TRUE)
          /\ arrivals' = arrivals + Pow2(i - 1)
    /\ UNCHANGED <<hs, mode>>

NextFill == SaveFresh \/ Kill

SpecFill == InitFill /\ [][NextFill]_vars

(* ------------------------------------------------------------------ *)
(* The session store: ids are captured and saved, sessions are killed  *)
(* and resumed, and the file may hold records of other working         *)
(* directories or none (legacy), or become unreadable.  arrivals       *)
(* counts the saves; mode is "down" once the process has ended.        *)
(* ------------------------------------------------------------------ *)

\* a record another working directory saved, and one saved without directory
OtherRecord ==
    [session_id |-> "s7", saved_at |-> Date, working_dir |-> OTHER_DIR, title |-> "Other"]

LegacyRecord ==
    [session_id |-> "s8", saved_at |-> Date, working_dir |-> Null, title |-> "Legacy"]

StartFiles ==
    { EmptyFile,
      [readable |-> TRUE, sessions |-> <<OtherRecord, LegacyRecord>>],
      [readable |-> TRUE, sessions |-> <<LegacyRecord, OtherRecord>>] }

\* the ids resumeSession is called with: saved, foreign, legacy and unknown
ResumeIds == { SessionIdSeq[i] : i \in 1..MaxStoreIds } \cup {"s7", "s8", "s0"}

\* session.ts:626: what follows a write of SESSION_FILE.  The promise of
\* Bun.write is not awaited: a rejection is not caught by the try block
\* around the call; the runtime drops it or ends the process.
WriteOutcomes == {"written", "dropped", "fatal"}

InitStore ==
    /\ session = NewClaudeSession
    /\ sessionFile \in StartFiles
    /\ hs = [h \in Handlers |-> NewLocals]
    /\ arrivals = 0
    /\ mode = "store"

\* session.ts:319-323 with session.ts:596-631
CaptureStore ==
    /\ mode = "store"
    /\ session.sessionId = Null
    /\ arrivals < MaxStoreSaves
    /\ \E i \in 1..MaxStoreIds, outcome \in WriteOutcomes :
          /\ session' = [session EXCEPT !.sessionId = SessionIdSeq[i]]
          /\ sessionFile' = SaveSession(session', sessionFile, outcome = "written")
          /\ mode' = IF outcome = "fatal" THEN "down" ELSE mode
    /\ arrivals' = arrivals + 1
    /\ UNCHANGED hs

KillStore == mode = "store" /\ Kill

\* session.resumeSession(id) (session.ts:664-691)
Resume ==
    /\ mode = "store"
    /\ \E id \in ResumeIds : session' = ResumeSession(session, sessionFile, id).s
    /\ UNCHANGED <<sessionFile, hs, arrivals, mode>>

\* session.resumeLast() (session.ts:696-703)
ResumeLastCalled ==
    /\ mode = "store"
    /\ session' = ResumeLast(session, sessionFile).s
    /\ UNCHANGED <<sessionFile, hs, arrivals, mode>>

\* SESSION_FILE becomes unreadable or unparseable
Damage ==
    /\ mode = "store"
    /\ sessionFile.readable
    /\ sessionFile' = [sessionFile EXCEPT !.readable = FALSE]
    /\ UNCHANGED <<session, hs, arrivals, mode>>

NextStore == CaptureStore \/ KillStore \/ Resume \/ ResumeLastCalled \/ Damage

SpecStore == InitStore /\ [][NextStore]_vars

(* ------------------------------------------------------------------ *)
(* Properties                                                          *)
(* ------------------------------------------------------------------ *)

\* session.ts:256-547: the send with locals q is between the creation of its
\* cancellation token and its finally block
InFlight(q) ==
    q.pc \in {"stream", "closing", "await_text", "await_blocked", "await_askuser"}

\* session.ts:541-580: the send with locals q created a token and has run its
\* finally block
Exited(q) == q.ctrl # "none" /\ ~InFlight(q)

\* session.ts:564-574: the value a send that timed out returns
TimeoutValue(parts) ==
    IF Join(parts) # "" THEN Join(parts) \o "\n\n" \o TimeoutNotice ELSE TimeoutNotice

\* C1: single-flight.  In every reachable state at most one
\* sendMessageStreaming call is between creating its cancellation token and
\* its finally block.
C1_SingleFlight ==
    \A g, h \in Handlers : InFlight(hs[g]) /\ InFlight(hs[h]) => g = h

\* C2: once stop() has returned "stopped" for a running query, no "tool" or
\* "text" status callback is invoked for that query any more.
C2_NoEmitAfterStop ==
    [][\A h \in Handlers :
          hs[h].stopped /\ hs'[h].stopped =>
             \A i \in (Len(hs[h].emits) + 1)..Len(hs'[h].emits) :
                hs'[h].emits[i].kind \notin {"tool", "text"}]_vars

\* C3: a message that was being processed, with no token yet, when stop()
\* returned "pending" never creates a token and never invokes a status
\* callback.
C3_PendingStopCancels ==
    \A h \in Handlers :
       hs[h].pendingStop => hs[h].ctrl = "none" /\ hs[h].emits = <<>>

\* C4: while the session is Idle (no handler processing, no query running)
\* stop() returns false and leaves every field of the session as it is.
C4_IdleStopIsNoOp ==
    ~IsRunning(session) =>
        StopReturn(session) = "false" /\ StopSession(session) = session

C4_Witness ==
    /\ \A h \in Handlers : hs[h].pc = "idle"
    /\ ~IsRunning(session)
    /\ arrivals > 0
    /\ session.sessionId # Null
    /\ session.lastError # Null

\* C5 as stated: once the inactivity timer has fired, the send does not
\* throw, and what it returns is the accumulated text followed by the notice.
C5_TimeoutNeverThrows ==
    \A h \in Handlers :
       hs[h].timedOut =>
          /\ hs[h].result.kind # "threw"
          /\ hs[h].result.kind \in {"returning", "returned"} =>
                hs[h].result.value = TimeoutValue(hs[h].responseParts)

\* C5, amended: once the inactivity timer has fired, no cancellation/abort
\* error is surfaced by the send; a send that then reaches its result without
\* an ask-user interaction returns the accumulated text, "\n\n" and the
\* notice (the notice alone when there is no text), and the ask-user sentinel
\* otherwise; the firing of the timer changes no field of the session.
C5_TimeoutReturnsPartial ==
    /\ [](\A h \in Handlers :
            hs[h].timedOut =>
               /\ hs[h].result.kind = "threw" => ~IsCleanupError(hs[h].result.value)
               /\ hs[h].result.kind \in {"returning", "returned"} =>
                     hs[h].result.value =
                        IF hs[h].askUserTriggered THEN WaitingForUser
                        ELSE TimeoutValue(hs[h].responseParts))
    /\ [][\A h \in Handlers :
            ~hs[h].timedOut /\ hs'[h].timedOut => session' = session]_vars

C5_Witness ==
    \E h \in Handlers :
       /\ hs[h].timedOut
       /\ hs[h].caught = AbortErrorStr
       /\ hs[h].result.kind = "returned"
       /\ hs[h].responseParts # <<>>
       /\ hs[h].result.value = LongText \o "\n\n" \o TimeoutNotice
       /\ session.lastError = Null

\* h's stream has just delivered an event, and the event carries a session id
DeliveredId(h) ==
    /\ hs[h].pc = "stream"
    /\ hs'[h].pos = hs[h].pos + 1
    /\ Scripts[hs'[h].script][hs'[h].pos].hasId
    /\ hs'[h].sid # Null

Caught(h) == hs[h].caught = Null /\ hs'[h].caught # Null

C10_IndexInvariant ==
    LET sessions == sessionFile.sessions
    IN  /\ Len(sessions) <= MAX_SESSIONS
        /\ \A i, j \in 1..Len(sessions) :
              sessions[i].session_id = sessions[j].session_id => i = j

C10_Witness ==
    /\ arrivals > MAX_SESSIONS
    /\ Len(sessionFile.sessions) = MAX_SESSIONS
    /\ session.sessionId = SessionIdSeq[MAX_SESSIONS + 1]
    /\ Head(sessionFile.sessions).session_id = session.sessionId
    /\ \A i \in 1..MAX_SESSIONS : sessionFile.sessions[i].session_id # SessionIdSeq[1]

(* ------------------------------------------------------------------ *)
(* Properties of the session index                                     *)
(* ------------------------------------------------------------------ *)

\* C11: saving a session, whether its id is new or already in the index,
\* places the saved record at the front of the index.
C11_SavedRecordAtFront ==
    \A i \in 1..MaxIds :
       LET s == [session EXCEPT !.sessionId = SessionIdSeq[i]]
           saved == SaveSession(s, sessionFile, TRUE)
       IN  /\ Len(saved.sessions) > 0
           /\ Head(saved.sessions).session_id = SessionIdSeq[i]

\* C12: after distinct ids were saved into an empty index, the index holds
\* min(number of saves, MAX_SESSIONS) records, they are the most recently
\* saved ids, and they are ordered most-recent-first.
C12_BoundedMostRecentFirst ==
    LET sessions == sessionFile.sessions
        n == Len(Saved)
        kept == IF n <= MAX_SESSIONS THEN n ELSE MAX_SESSIONS
    IN  /\ sessionFile.readable
        /\ Len(sessions) = kept
        /\ \A j \in 1..kept :
              sessions[j].session_id = SessionIdSeq[Saved[n - j + 1]]

C12_Witness ==
    /\ Len(Saved) = MAX_SESSIONS + 2
    /\ Len(sessionFile.sessions) = MAX_SESSIONS
    /\ Head(sessionFile.sessions).session_id = SessionIdSeq[Saved[MAX_SESSIONS + 2]]
    /\ \A j \in 1..MAX_SESSIONS :
          sessionFile.sessions[j].session_id \notin
             {SessionIdSeq[Saved[1]], SessionIdSeq[Saved[2]]}

(* ------------------------------------------------------------------ *)
(* Properties of the session store                                     *)
(* ------------------------------------------------------------------ *)

\* C13: the store never fails its caller: an unreadable file loads as the
\* empty list, so that listing and resuming find nothing, and a capture whose
\* write fails leaves the process running with the title of the session
\* unchanged.
C13_StoreNeverFailsCaller ==
    [][ /\ ~sessionFile'.readable =>
              /\ LoadSessionHistory(sessionFile') = <<>>
              /\ GetSessionList(sessionFile') = <<>>
              /\ ~ResumeLast(session', sessionFile').ok
        /\ session.sessionId = Null /\ session'.sessionId # Null =>
              /\ mode' = mode
              /\ session'.conversationTitle = session.conversationTitle ]_vars

\* C14: resume(id) fails and leaves the session as it is when the index holds
\* no record with that id or the record belongs to another working directory;
\* otherwise it succeeds and the session takes the id and title of the record,
\* and a second resume of the same id gives the same id and title.
C14_ResumeContract ==
    \A id \in ResumeIds :
       LET recs == LoadSessionHistory(sessionFile)
           hits == { i \in 1..Len(recs) : recs[i].session_id = id }
           r    == ResumeSession(session, sessionFile, id)
           r2   == ResumeSession(r.s, sessionFile, id)
       IN  IF hits = {} \/ \E i \in hits : recs[i].working_dir \notin {Null, WORKING_DIR}
           THEN /\ ~r.ok
                /\ r.s.sessionId = session.sessionId
                /\ r.s.conversationTitle = session.conversationTitle
                /\ r.s.lastActivity = session.lastActivity
           ELSE /\ r.ok
                /\ r.s.sessionId = id
                /\ \A i \in hits : r.s.conversationTitle = recs[i].title
                /\ r2.ok
                /\ r2.s.sessionId = r.s.sessionId
                /\ r2.s.conversationTitle = r.s.conversationTitle

\* a legacy record was resumed while the index also holds a record of another
\* working directory and a record the session saved itself
C14_Witness ==
    /\ session.sessionId = "s8"
    /\ session.conversationTitle = "Legacy"
    /\ session.lastActivity = Date
    /\ \E i \in 1..Len(LoadSessionHistory(sessionFile)) :
          LoadSessionHistory(sessionFile)[i] = OtherRecord
    /\ ~ResumeSession(session, sessionFile, "s7").ok
    /\ ~ResumeSession(session, sessionFile, "s0").ok
    /\ ResumeSession(session, sessionFile, "s1").ok

\* C15: listSessions returns exactly the records of the index whose working
\* directory is absent or the current one, in the order of the index.
C15_ListIsFilteredIndex ==
    LET recs == LoadSessionHistory(sessionFile)
        list == GetSessionList(sessionFile)
        keep == { i \in 1..Len(recs) : recs[i].working_dir \in {Null, WORKING_DIR} }
    IN  /\ Len(list) = Cardinality(keep)
        /\ \A i \in keep : list[Cardinality({ j \in keep : j <= i })] = recs[i]

\* a record of another working directory lies between two listed records,
\* one of them without working directory
C15_Witness ==
    LET recs == LoadSessionHistory(sessionFile)
        list == GetSessionList(sessionFile)
    IN  /\ Len(recs) >= 3
        /\ recs[2] = OtherRecord
        /\ recs[1].working_dir = WORKING_DIR
        /\ recs[3] = LegacyRecord
        /\ list = <<recs[1], recs[3]>>

\* C16: resumeLast fails and leaves the session as it is when the index holds
\* no record for the current working directory; otherwise it adopts the first
\* record of listSessions, which is the record saved last: right after a
\* session with any id is saved, resumeLast adopts that id.
C16_ResumeLastIsLastSaved ==
    /\ LET r == ResumeLast(session, sessionFile)
           list == GetSessionList(sessionFile)
       IN  IF list = <<>> THEN ~r.ok /\ r.s = session
           ELSE r.ok /\ r.s.sessionId = list[1].session_id
                     /\ r.s.conversationTitle = list[1].title
    /\ \A i \in 1..MaxStoreIds :
          LET s == [session EXCEPT !.sessionId = SessionIdSeq[i]]
              saved == SaveSession(s, sessionFile, TRUE)
              r == ResumeLast(KillSession(s), saved)
          IN  r.ok /\ r.s.sessionId = SessionIdSeq[i]

(* ------------------------------------------------------------------ *)
(* Properties of kill() and of the segments of a send                  *)
(* ------------------------------------------------------------------ *)

\* C17: kill() leaves the session without id and title and the index as it
\* was, so that every id resumes after kill() as it did before; and the first
\* send that begins after kill() opens its stream without resume identifier.
C17_KillStartsAfresh ==
    [][ /\ session' = KillSession(session) /\ hs' = hs =>
              /\ session'.sessionId = Null
              /\ session'.conversationTitle = Null
              /\ sessionFile' = sessionFile
              /\ \A id \in SessionIds :
                    ResumeSession(session', sessionFile', id).ok
                       = ResumeSession(session, sessionFile, id).ok
        /\ \A h \in Handlers :
              session.killed /\ hs[h].pc = "classify" /\ hs'[h].pc = "stream" =>
                 hs'[h].resume = Null ]_vars

\* the segment ids the "text" and "segment_end" emissions of a send carry
SegmentIds(emits) ==
    { emits[i].seg : i \in { j \in 1..Len(emits) : emits[j].kind \in {"text", "segment_end"} } }

\* the number of "segment_end" emissions with id k
SegmentEnds(emits, k) ==
    Cardinality({ i \in 1..Len(emits) : emits[i].kind = "segment_end" /\ emits[i].seg = k })

\* C18 as stated: over a whole send, thrown or returned, every segment id
\* that a "text" or "segment_end" emission carries has exactly one
\* "segment_end" emission.
C18_ExactlyOneSegmentEnd ==
    \A h \in Handlers :
       hs[h].result.kind \in {"returned", "threw"} =>
          \A k \in SegmentIds(hs[h].emits) : SegmentEnds(hs[h].emits, k) = 1

\* C18, amended: at every moment of a send every segment id has at most one
\* "segment_end" emission, and once the send has returned, with no ask-user
\* interaction triggered, every segment id that a "text" or "segment_end"
\* emission of it carries has exactly one; a send that throws or that
\* returns the ask-user sentinel leaves the segment that was open without
\* "segment_end".
C18_OneSegmentEndOnReturn ==
    \A h \in Handlers :
       /\ \A k \in SegmentIds(hs[h].emits) : SegmentEnds(hs[h].emits, k) <= 1
       /\ hs[h].result.kind = "returned" /\ ~hs[h].askUserTriggered =>
             \A k \in SegmentIds(hs[h].emits) : SegmentEnds(hs[h].emits, k) = 1

C18_Witness ==
    \E h \in Handlers :
       /\ hs[h].result.kind = "returned"
       /\ hs[h].timedOut
       /\ \E i \in 1..Len(hs[h].emits) :
             hs[h].emits[i].kind = "text" /\ hs[h].emits[i].seg = 0
       /\ {0, 1} \subseteq SegmentIds(hs[h].emits)
       /\ Cardinality(SegmentIds(hs[h].emits)) >= 3

\* the positions of the emissions that carry a segment id
Segmented(emits) == { i \in 1..Len(emits) : emits[i].seg # NoSeg }

\* segment ids never decrease, no id has two "segment_end" emissions, and the
\* "segment_end" of an id precedes every emission with a greater id
SegmentsInOrder(emits) ==
    /\ \A i, j \in Segmented(emits) : i < j => emits[i].seg <= emits[j].seg
    /\ \A k \in SegmentIds(emits) : SegmentEnds(emits, k) <= 1
    /\ \A i, j \in Segmented(emits) :
          emits[i].seg < emits[j].seg =>
             \E e \in 1..(j - 1) :
                emits[e].kind = "segment_end" /\ emits[e].seg = emits[i].seg

C20_CriticalCallbacksAwaited ==
    [][\A h \in Handlers :
          \A i \in (Len(hs[h].emits) + 1)..Len(hs'[h].emits) :
             hs'[h].emits[i].kind \in {"text", "segment_end", "done"} =>
                /\ hs'[h].emits[i].awaited
                /\ i = Len(hs'[h].emits)
                /\ hs'[h].pc \in {"await_text", "await_final_segment",
                                  "await_notice_text", "await_notice_end",
                                  "await_done"}]_vars

(* ------------------------------------------------------------------ *)
(* Properties of the status callbacks and of the result of a send      *)
(* ------------------------------------------------------------------ *)

C22_AskUserFirst ==
    \A h \in Handlers :
       LET q == hs[h]
           n == Len(q.emits)
       IN  q.result.kind \in {"returning", "returned"} =>
              /\ n > 0 /\ q.emits[n].kind = "done"
              /\ IF q.askUserTriggered
                 THEN /\ q.result.value = WaitingForUser
                      /\ \A i \in 1..n :
                            /\ q.emits[i].text # TimeoutNotice
                            /\ q.emits[i].kind = "segment_end" => ~q.emits[i].awaited
                 ELSE /\ q.currentSegmentText # "" =>
                            \E i \in 1..(n - 1) :
                               /\ q.emits[i].kind = "segment_end" /\ q.emits[i].awaited
                               /\ q.emits[i].seg = q.currentSegmentId
                               /\ q.emits[i].text = q.currentSegmentText
                      /\ q.result.value = IF q.timedOut THEN TimeoutValue(q.responseParts)
                                          ELSE IF Join(q.responseParts) # ""
                                          THEN Join(q.responseParts) ELSE NoResponse
                      /\ q.timedOut =>
                            /\ n >= 3
                            /\ q.emits[n - 2].kind = "text"
                            /\ q.emits[n - 2].text = TimeoutNotice
                            /\ q.emits[n - 1].kind = "segment_end"
                            /\ q.emits[n - 1].text = TimeoutNotice

\* the ask-user sentinel was returned by a send whose watchdog had fired and
\* whose open segment holds text
C22_Witness ==
    \E h \in Handlers :
       /\ hs[h].result = [kind |-> "returned", value |-> WaitingForUser]
       /\ hs[h].askUserTriggered
       /\ hs[h].timedOut
       /\ hs[h].currentSegmentText = LongText
       /\ hs[h].responseParts = <<ShortText, LongText>>

RECURSIVE ScriptTexts(_)
\* the text blocks of a sequence of events, in order
ScriptTexts(events) ==
    IF events = <<>> THEN <<>>
    ELSE LET e == Head(events)
             texts == IF e.type = "assistant"
                      THEN SelectSeq(e.content, LAMBDA b : b.type = "text")
                      ELSE <<>>
         IN  [i \in 1..Len(texts) |-> texts[i].text] \o ScriptTexts(Tail(events))

\* C23: a send that returns without ask-user interaction and without timeout
\* returns the concatenation, in order, of the text blocks of the events it
\* consumed, and "No response from Claude." when that is empty; the text of
\* events it did not consume is not part of it.
C23_ReturnsConsumedText ==
    \A h \in Handlers :
       LET q == hs[h]
           reduced == IF q.skipped THEN q.pos - 1 ELSE q.pos
           consumed == IF reduced = 0 THEN "" ELSE Join(ScriptTexts(Prefix(q.script, reduced)))
       IN  /\ q.result.kind \in {"returning", "returned"}
           /\ ~q.askUserTriggered /\ ~q.timedOut
           => q.result.value = IF consumed # "" THEN consumed ELSE NoResponse

\* after a stop the loop dropped an event that held text, and the send
\* returned the text of the events before it
C23_Witness ==
    \E h \in Handlers :
       /\ hs[h].skipped
       /\ hs[h].result = [kind |-> "returned", value |-> ShortText]
       /\ ~hs[h].timedOut
       /\ ScriptTexts(<<Scripts[hs[h].script][hs[h].pos]>>) = <<LongText>>

\* C24: consumeInterruptFlag returns true exactly when markInterrupt was
\* called since the last consume, always resets the flag, and clears the stop
\* request exactly when it returns true; after markInterrupt, stop and
\* consumeInterruptFlag the send of the next message does not throw "Query
\* cancelled".  Only markInterrupt sets the flag and only consumeInterruptFlag
\* resets it.
C24_InterruptFlag ==
    /\ [](LET r  == ConsumeInterruptFlag(session)
              m  == ConsumeInterruptFlag(StopSession(MarkInterrupt(session)))
          IN  /\ r.was = session.wasInterruptedByNewMessage
              /\ ~r.s.wasInterruptedByNewMessage
              /\ r.s.stopRequested = (session.stopRequested /\ ~r.was)
              /\ r.s = [session EXCEPT !.wasInterruptedByNewMessage = FALSE,
                                       !.stopRequested = r.s.stopRequested]
              /\ ~ConsumeInterruptFlag(r.s).was
              /\ ConsumeInterruptFlag(MarkInterrupt(r.s)).was
              /\ m.was /\ ~m.s.stopRequested
              /\ \A h \in Handlers :
                    SendEnter(NewLocals, m.s, h).q.result.kind # "threw")
    /\ [][/\ ~session.wasInterruptedByNewMessage /\ session'.wasInterruptedByNewMessage
             => session' = MarkInterrupt(session)
          /\ session.wasInterruptedByNewMessage /\ ~session'.wasInterruptedByNewMessage
             => session' = ConsumeInterruptFlag(session).s /\ ~session'.stopRequested]_vars

\* the flag of a stopped, still running query was consumed, and the message
\* that followed has opened its stream
C24_Witness ==
    /\ ~session.wasInterruptedByNewMessage
    /\ ~session.stopRequested
    /\ arrivals = 2
    /\ \E h \in Handlers :
          /\ hs[h].pc = "stream"
          /\ hs[h].resume # Null
    /\ session.lastError = AbortErrorStr

\* C25: the budget of a message is 50000 when its lower-cased text holds a
\* deep keyword, whatever normal keywords it holds besides; else 10000 when
\* it holds a normal keyword; else 0; computing it changes nothing else.
C25_DeepTakesPrecedence ==
    /\ [](LET q == hs["h1"]
              lower == ToLowerCase(q.message)
              deep == \E k \in THINKING_DEEP_KEYWORDS : Includes(lower, k)
              normal == \E k \in THINKING_KEYWORDS : Includes(lower, k)
          IN  q.thinkingTokens # -1 =>
                 /\ deep => q.thinkingTokens = 50000
                 /\ ~deep /\ normal => q.thinkingTokens = 10000
                 /\ ~deep /\ ~normal => q.thinkingTokens = 0)
    /\ [][hs' = [hs EXCEPT !["h1"].thinkingTokens = hs'["h1"].thinkingTokens]
          /\ session' = session /\ sessionFile' = sessionFile]_vars

\* a message with a deep keyword spread over two words, and a normal one
C25_Witness ==
    /\ hs["h1"].message = "reasons Think HARD "
    /\ hs["h1"].thinkingTokens = 50000

\* the "tool_done" emissions of q for identifier i
ToolDones(q, i) ==
    { k \in 1..Len(q.emits) : q.emits[k].kind = "tool_done" /\ q.emits[k].tool = i }

\* the step of h delivers a tool-result block for identifier i to the result
\* loop (session.ts:313 has not left the loop)
ResultDelivered(h, i) ==
    /\ hs[h].pc = "stream" /\ hs'[h].pos = hs[h].pos + 1
    /\ ~session.stopRequested
    /\ LET event == Scripts[hs'[h].script][hs'[h].pos]
       IN  /\ event.type = "user"
           /\ \E k \in 1..Len(event.content) :
                 event.content[k].type = "tool_result" /\ event.content[k].id = i

\* C26: a step of a send (the handler neither starts nor exits) emits a
\* "tool_done" for an identifier exactly when it delivers a tool-result block
\* whose identifier is in pendingTools, and then emits one; so an identifier
\* has at most one "tool_done" in a send, after the "tool" emission of the
\* same send for it, and an ask-user tool has none.
C26_ToolDoneIffPending ==
    /\ [][\A h \in Handlers : \A i \in ToolIds :
            hs[h].pc # "idle" /\ hs'[h].pc # "idle" =>
                Cardinality(ToolDones(hs'[h], i)) - Cardinality(ToolDones(hs[h], i))
                    = IF ResultDelivered(h, i) /\ hs[h].pendingTools[i] # Null THEN 1 ELSE 0]_vars
    /\ [](\A h \in Handlers : \A i \in ToolIds :
            /\ Cardinality(ToolDones(hs[h], i)) <= 1
            /\ \A k \in ToolDones(hs[h], i) :
                  /\ \E j \in 1..(k-1) : /\ hs[h].emits[j].kind = "tool"
                                         /\ hs[h].emits[j].tool = i
                  /\ i # "t4")

\* a second send was delivered the result of an ask-user tool and a result for
\* the identifier the first send registered, and emitted no "tool_done"; or a
\* send was delivered two results for one identifier and emitted one
C26_Witness ==
    \/ /\ arrivals = 2 /\ mode = "solo"
       /\ hs["h1"].script = 4 /\ hs["h1"].pos = 3 /\ ~hs["h1"].skipped
       /\ \A i \in ToolIds : ToolDones(hs["h1"], i) = {}
    \/ /\ hs["h1"].script = 1 /\ hs["h1"].pos = 3 /\ ~hs["h1"].skipped
       /\ Cardinality(ToolDones(hs["h1"], "t1")) = 1

\* C27: when a send has emitted "done" with no ask-user interaction triggered
\* and its current segment holds text, exactly one "segment_end" with the id
\* of that segment was emitted; it was awaited, it carries the whole text of
\* the segment, it precedes "done", and only the timeout notice lies between
\* the two. This holds whether or not a "text" update was emitted for the
\* segment.
C27_FinalFlush ==
    \A h \in Handlers :
       LET q == hs[h]
           ends == { i \in 1..Len(q.emits) :
                       q.emits[i].kind = "segment_end" /\ q.emits[i].seg = q.currentSegmentId }
           dones == { i \in 1..Len(q.emits) : q.emits[i].kind = "done" }
       IN  /\ q.result.kind \in {"returning", "returned"}
           /\ ~q.askUserTriggered
           /\ q.currentSegmentText # ""
           => /\ Cardinality(ends) = 1
              /\ \A i \in ends :
                    /\ q.emits[i].awaited
                    /\ q.emits[i].text = q.currentSegmentText
                    /\ \A d \in dones : i < d
                    /\ \A j \in (i + 1)..Len(q.emits) :
                          \/ q.emits[j].kind = "done"
                          \/ q.timedOut /\ q.emits[j].seg = q.currentSegmentId + 1

\* a send returned with a current segment of 20 characters or less, after a
\* tool call closed an earlier segment: no "text" update carries the id of
\* the current segment, and one "segment_end" does
C27_Witness ==
    \E h \in Handlers :
       LET q == hs[h]
       IN  /\ q.result.kind = "returned" /\ ~q.askUserTriggered
           /\ q.currentSegmentText = ShortText /\ q.currentSegmentId = 1
           /\ \A i \in 1..Len(q.emits) :
                 q.emits[i].kind = "text" => q.emits[i].seg # q.currentSegmentId
           /\ \E i \in 1..Len(q.emits) :
                 /\ q.emits[i].kind = "segment_end" /\ q.emits[i].text = ShortText
                 /\ q.emits[i].seg = q.currentSegmentId

\* the step is one of "h1" that received a text block
TextBlockStep ==
    /\ hs["h1"].pc = "stream" /\ hs'["h1"].pos = hs["h1"].pos + 1
    /\ hs'["h1"].input.block.type = "text"

\* C28: the step that receives a text block appends the block to the
\* accumulator and to the current segment; it emits a "text" update exactly
\* when the throttle interval has passed since the last "text" update of the
\* send and the segment is then longer than 20 characters, and it emits
\* nothing otherwise; the update carries the whole current segment text and
\* the current segment id.
C28_ThrottledText ==
    [][TextBlockStep =>
        LET q == hs["h1"]
            q2 == hs'["h1"]
            text == q2.input.block.text
            passed == q2.input.elapsed /\ Len(q2.currentSegmentText) > 20
        IN  /\ q2.responseParts = Append(q.responseParts, text)
            /\ q2.currentSegmentText = q.currentSegmentText \o text
            /\ q2.currentSegmentId = q.currentSegmentId
            /\ IF passed
               THEN q2.emits = Append(q.emits,
                                      [kind |-> "text", text |-> q2.currentSegmentText,
                                       seg |-> q2.currentSegmentId, tool |-> Null,
                                       awaited |-> TRUE, open |-> TRUE])
               ELSE q2.emits = q.emits]_vars

\* after a "text" update a text block was received before the interval had
\* passed: the segment is longer than 20 characters and longer than the text
\* of the last update, and no update was emitted for it
C28_Witness ==
    LET q == hs["h1"]
    IN  /\ mode = "throttle" /\ q.pc = "stream"
        /\ q.input.block.type = "text" /\ ~q.input.elapsed
        /\ Len(q.currentSegmentText) > 20
        /\ q.emits # <<>>
        /\ q.emits[Len(q.emits)].kind = "text"
        /\ q.emits[Len(q.emits)].seg = q.currentSegmentId
        /\ Len(q.emits[Len(q.emits)].text) < Len(q.currentSegmentText)

\* the positions of the "done" emissions of q
Dones(q) == { i \in 1..Len(q.emits) : q.emits[i].kind = "done" }

\* C29: a send never invokes a status callback after "done" and never invokes
\* "done" twice; a send that returns has invoked "done", as its last
\* callback, and a send that threw has invoked none.
C29_DoneOnceAndLast ==
    \A h \in Handlers :
       LET q == hs[h]
       IN  /\ Cardinality(Dones(q)) <= 1
           /\ \A i \in Dones(q) : i = Len(q.emits)
           /\ q.result.kind \in {"returning", "returned"} => Dones(q) = {Len(q.emits)}
           /\ q.result.kind = "threw" => Dones(q) = {}
           /\ Dones(q) # {} => q.result.kind \in {"returning", "returned"}

\* a send returned after a timeout: "done" follows the final "segment_end" and
\* the two emissions of the notice
C29_Witness ==
    \E h \in Handlers :
       LET q == hs[h]
       IN  /\ q.result.kind = "returned" /\ q.timedOut
           /\ Len(q.emits) >= 4
           /\ q.emits[Len(q.emits)].kind = "done"
           /\ q.emits[Len(q.emits) - 1].kind = "segment_end"
           /\ q.emits[Len(q.emits) - 2].kind = "text"
           /\ q.emits[Len(q.emits) - 3].kind = "segment_end"

\* C30: with one message processed at a time and stop() called only while no
\* query is running, a message that was awaiting its classification when
\* stop() returned "pending" never creates a token, and a send is cancelled
\* at its entry only for such a message: the request is consumed by the
\* message that was being processed when it was made.
C30_PendingStopConsumedByItsMessage ==
    \A h \in Handlers :
       /\ hs[h].pendingStop => hs[h].ctrl = "none"
       /\ hs[h].result = [kind |-> "threw", value |-> CancelledError] => hs[h].pendingStop

\* C31: the step that triggers an ask-user interaction emits nothing, and
\* from then on the send receives no further event and invokes no status
\* callback other than "done".
C31_AskUserShortCircuits ==
    [][\A h \in Handlers :
          hs'[h].askUserTriggered /\ hs[h].pc # "idle" =>
             /\ hs'[h].pos = hs[h].pos
             /\ \A i \in (Len(hs[h].emits) + 1)..Len(hs'[h].emits) :
                   hs'[h].emits[i].kind = "done"]_vars

\* the inactivity timer of h's send fires in this step
Fires(h) ==
    /\ hs[h].timer /\ ~hs'[h].timer
    /\ hs'[h].pc = hs[h].pc

\* C32: a timer is armed only for a send that is in flight; the step that
\* receives an event leaves the timer of its send armed; and the step in
\* which the timer of a send fires sets the timed-out flag of that send and
\* aborts the token that send created, and no token of another send.
C32_Watchdog ==
    /\ [](\A h \in Handlers : hs[h].timer => InFlight(hs[h]))
    /\ [][\A h \in Handlers :
            /\ hs[h].pc = "stream" /\ hs'[h].pos = hs[h].pos + 1 => hs'[h].timer
            /\ Fires(h) =>
                  /\ hs'[h].timedOut
                  /\ hs'[h].ctrl = "aborted"
                  /\ \A g \in Handlers \ {h} : hs'[g].ctrl = hs[g].ctrl]_vars

\* C33: the step in which a send creates its token prepends the date line
\* and passes no resume identifier exactly when the session holds no id at
\* that step, and otherwise leaves the prompt as it is and passes the id the
\* session holds; and the step that receives an event while the session
\* holds an id leaves that id in place.
C33_DatedIffNoId ==
    [][\A h \in Handlers :
          /\ hs[h].ctrl = "none" /\ hs'[h].ctrl = "live" =>
                IF session.sessionId = Null
                THEN hs'[h].dated /\ hs'[h].resume = Null
                ELSE ~hs'[h].dated /\ hs'[h].resume = session.sessionId
          /\ hs[h].pc = "stream" /\ hs'[h].pos = hs[h].pos + 1
                /\ session.sessionId # Null =>
                session'.sessionId = session.sessionId]_vars

\* the second send found an id in the session, so it resumed it with the
\* prompt as it was, and an event carrying an id has reached it; the first
\* query, begun without id, is still open and its events carry another id
C33_Witness ==
    /\ mode = "duo"
    /\ hs["h1"].dated /\ hs["h1"].resume = Null /\ InFlight(hs["h1"])
    /\ ~hs["h2"].dated /\ hs["h2"].resume # Null /\ hs["h2"].pos = 1
    /\ hs["h2"].sid # Null
    /\ session.sessionId = hs["h2"].resume

\* C34: whenever no handler is between startProcessing() and its cleanup and
\* no query is running, the stop-request flag is false.
C34_StopFlagClearWhenIdle ==
    (\A h \in Handlers : hs[h].pc = "idle") /\ ~IsRunning(session) =>
        ~session.stopRequested

\* C35: once every handler has returned or thrown, isRunning is false and
\* stop() returns false, also when the classification of a message raised.
C35_CleanupOnEveryExit ==
    (\A h \in Handlers : hs[h].pc = "idle") =>
        ~IsRunning(session) /\ StopReturn(session) = "false"

\* C36: while some handler is between startProcessing() and its cleanup, or
\* some send is between the creation of its token and its finally block,
\* isRunning is true.
C36_RunningWhileAnyProcessing ==
    (\E h \in Handlers : hs[h].pc # "idle") => IsRunning(session)

\* C37: from kill() until a send begins after it, the session holds no id.
C37_KillIsDurable ==
    session.killed => session.sessionId = Null

\* C38: in every state the session holds a cancellation token exactly when
\* the query is marked running and exactly when the query-start timestamp is
\* set; and a step changes one of the three only when a send creates its
\* token or runs its finally block in it.
C38_TokenRunningStarted ==
    /\ []( /\ (session.abortController # Null) = session.isQueryRunning
           /\ (session.queryStarted # Null) = session.isQueryRunning )
    /\ [][ \/ session'.abortController # session.abortController
           \/ session'.isQueryRunning # session.isQueryRunning
           \/ session'.queryStarted # session.queryStarted
           => \E h \in Handlers :
                 \/ hs[h].ctrl = "none" /\ hs'[h].ctrl = "live"
                 \/ InFlight(hs[h]) /\ ~InFlight(hs'[h]) ]_vars

\* a second query is running, after the first was finalized
C38_Witness ==
    /\ session.isQueryRunning
    /\ session.abortController # Null
    /\ session.queryStarted # Null
    /\ session.lastActivity # Null
    /\ arrivals = 2

====
